---- MODULE Spec2Model ----
(***************************************************************************)
(* Model of the Maven dependency-graph visualizer                          *)
(* (src/project2/depgraph3.py, class DependencyGraphVisualizer).           *)
(*                                                                         *)
(* Strings are sequences of one-character strings, so that split(':'),     *)
(* lower() and the substring test `in` are computed and not assumed.       *)
(* A dependency record is [groupId, artifactId, version].                  *)
(* dependency_graph is an insertion-ordered dict: a sequence of            *)
(* [key, deps] entries with distinct keys.                                 *)
(***************************************************************************)
EXTENDS Integers, Sequences, FiniteSets, TLC

VARIABLES
    args,               \* argparse.Namespace: package, max_depth, filter, source
    config,             \* self.config
    source,             \* the dependency source behind get_package_dependencies
    queue,              \* the deque of build_dependency_graph
    dependency_graph,   \* self.dependency_graph
    visited_packages,   \* self.visited_packages
    pc,                 \* position of the run
    fetchLog,           \* history: coordinates for which the source was called
    writeLog,           \* history: (coordinate, depth) of every Graph write
    popLog,             \* history: every entry popped from the queue
    dependencies,       \* _apply_filter: the list passed in
    filtered,           \* _apply_filter: the list returned
    refiltered,         \* _apply_filter applied to its own result
    stack,              \* the active calls of _print_tree_node, innermost last
    tree_out,           \* the lines print_ascii_tree has printed
    flat_out,           \* the lines print_direct_dependencies has printed
    d2_content,         \* the text returned by generate_d2_diagram
    demo                \* demonstrate_examples: examples started, saved root

vars == <<args, config, source, queue, dependency_graph, visited_packages,
          pc, fetchLog, writeLog, popLog, dependencies, filtered, refiltered,
          stack, tree_out, flat_out, d2_content, demo>>

buildVars == <<args, config, source, queue, dependency_graph,
               visited_packages, fetchLog, writeLog, popLog>>

filterVars == <<dependencies, filtered, refiltered>>

renderVars == <<stack, tree_out, flat_out, d2_content, demo>>

-----------------------------------------------------------------------------
(* Bounds *)

MaxDepthBound == 3      \* largest --max-depth tried
MaxDeps == 2            \* longest dependency list a generated source returns
MaxFilterList == 3      \* longest list handed to _apply_filter on its own

-----------------------------------------------------------------------------
(* Strings *)

None == <<"None">>      \* Python None (no character is named "None")

LowerChar(ch) ==
    CASE ch = "A" -> "a"
      [] ch = "B" -> "b"
      [] ch = "C" -> "c"
      [] ch = "E" -> "e"
      [] ch = "I" -> "i"
      [] ch = "L" -> "l"
      [] ch = "S" -> "s"
      [] ch = "T" -> "t"
      [] OTHER -> ch

\* str.lower()
Lower(s) == [i \in 1..Len(s) |-> LowerChar(s[i])]

\* the Python test `needle in hay` on strings
Contains(needle, hay) ==
    \E i \in 0..(Len(hay) - Len(needle)) :
        SubSeq(hay, i + 1, i + Len(needle)) = needle

\* len(s.split(':'))
NumParts(s) == 1 + Cardinality({i \in 1..Len(s) : s[i] = ":"})

\* ':' in s
HasColon(s) == \E i \in 1..Len(s) : s[i] = ":"

\* truthiness of an optional string
Falsy(s) == s = None \/ s = <<>>

-----------------------------------------------------------------------------
(* Dependency records *)

Dep(g, a, v) == [groupId |-> g, artifactId |-> a, version |-> v]

\* a coordinate string group:artifact
Coord(g, a) == g \o <<":">> \o a

\* f"{dep['groupId']}:{dep['artifactId']}"
DepKey(dep) == dep.groupId \o <<":">> \o dep.artifactId

\* f"{dep['groupId']}:{dep['artifactId']}:{dep['version']}"
Composite(dep) ==
    dep.groupId \o <<":">> \o dep.artifactId \o <<":">> \o dep.version

-----------------------------------------------------------------------------
(* _apply_filter *)

\* filter_str = self.config['filter_substring'].lower()
filter_str(substring) == Lower(substring)

\* variant: the composite is compared as written, letter case included
dep_str_NoLower(dep) == Composite(dep)

\* dep_str = f"{groupId}:{artifactId}:{version}".lower()
dep_str(dep) == Lower(Composite(dep))

\* the guard of filtered.append(dep)
Keeps(dep, substring) == Contains(filter_str(substring), dep_str(dep))

\* variant: the early return is missing
NoFilter_Never(substring) == FALSE

\* the early return of _apply_filter
NoFilter(substring) == Falsy(substring)

\* variant: the loop starts at the second record
FilterLoop_SkipFirst(deps, substring) ==
    IF deps = <<>> THEN <<>>
    ELSE SelectSeq(Tail(deps), LAMBDA dep : Keeps(dep, substring))

\* the loop of _apply_filter: one pass, appending the records kept
FilterLoop(deps, substring) ==
    SelectSeq(deps, LAMBDA dep : Keeps(dep, substring))

apply_filter(deps, substring) ==
    IF NoFilter(substring) THEN deps ELSE FilterLoop(deps, substring)

-----------------------------------------------------------------------------
(* self.dependency_graph: an insertion-ordered dict *)

EmptyDict == <<>>

Keys(g) == {g[i].key : i \in 1..Len(g)}

KeyOrder(g) == [i \in 1..Len(g) |-> g[i].key]

Get(g, k) == g[CHOOSE i \in 1..Len(g) : g[i].key = k].deps

\* variant: an empty list is not stored
SetItem_SkipEmpty(g, k, v) ==
    IF v = <<>> THEN g
    ELSE IF k \in Keys(g)
    THEN [i \in 1..Len(g) |->
            IF g[i].key = k THEN [key |-> k, deps |-> v] ELSE g[i]]
    ELSE Append(g, [key |-> k, deps |-> v])

\* g[k] = v: a new key goes last, an existing key keeps its place
SetItem(g, k, v) ==
    IF k \in Keys(g)
    THEN [i \in 1..Len(g) |->
            IF g[i].key = k THEN [key |-> k, deps |-> v] ELSE g[i]]
    ELSE Append(g, [key |-> k, deps |-> v])

-----------------------------------------------------------------------------
(* _get_test_dependencies: the in-memory fixture of the test mode *)

junit ==
    <<"j", "u", "n", "i", "t">>
org_hamcrest ==
    <<"o", "r", "g", ".", "h", "a", "m", "c", "r", "e", "s", "t">>
hamcrest_core ==
    <<"h", "a", "m", "c", "r", "e", "s", "t", "-", "c", "o", "r", "e">>
hamcrest_library ==
    <<"h", "a", "m", "c", "r", "e", "s", "t", "-", "l", "i", "b", "r", "a",
      "r", "y">>
org_springframework ==
    <<"o", "r", "g", ".", "s", "p", "r", "i", "n", "g", "f", "r", "a", "m",
      "e", "w", "o", "r", "k">>
spring_core ==
    <<"s", "p", "r", "i", "n", "g", "-", "c", "o", "r", "e">>
spring_jcl ==
    <<"s", "p", "r", "i", "n", "g", "-", "j", "c", "l">>
commons_logging ==
    <<"c", "o", "m", "m", "o", "n", "s", "-", "l", "o", "g", "g", "i", "n",
      "g">>
org_slf4j ==
    <<"o", "r", "g", ".", "s", "l", "f", "4", "j">>
slf4j_api ==
    <<"s", "l", "f", "4", "j", "-", "a", "p", "i">>
com_example ==
    <<"c", "o", "m", ".", "e", "x", "a", "m", "p", "l", "e">>
my_app ==
    <<"m", "y", "-", "a", "p", "p">>
com_google_guava ==
    <<"c", "o", "m", ".", "g", "o", "o", "g", "l", "e", ".", "g", "u", "a",
      "v", "a">>
guava ==
    <<"g", "u", "a", "v", "a">>
failureaccess ==
    <<"f", "a", "i", "l", "u", "r", "e", "a", "c", "c", "e", "s", "s">>
listenablefuture ==
    <<"l", "i", "s", "t", "e", "n", "a", "b", "l", "e", "f", "u", "t", "u",
      "r", "e">>
v2_2 ==
    <<"2", ".", "2">>
v1_2 ==
    <<"1", ".", "2">>
v5_3_23 ==
    <<"5", ".", "3", ".", "2", "3">>
v1_7_36 ==
    <<"1", ".", "7", ".", "3", "6">>
v4_13_2 ==
    <<"4", ".", "1", "3", ".", "2">>
v31_1_jre ==
    <<"3", "1", ".", "1", "-", "j", "r", "e">>
v1_0_1 ==
    <<"1", ".", "0", ".", "1">>
v9999 ==
    <<"9", "9", "9", "9", ".", "0", "-", "e", "m", "p", "t", "y", "-", "t",
      "o", "-", "a", "v", "o", "i", "d", "-", "c", "o", "n", "f", "l", "i",
      "c", "t", "-", "w", "i", "t", "h", "-", "g", "u", "a", "v", "a">>

junit_junit == Coord(junit, junit)
spring_core_key == Coord(org_springframework, spring_core)
my_app_key == Coord(com_example, my_app)

\* the literal dict, without its 'default' entry
test_dependencies ==
    (junit_junit :> <<Dep(org_hamcrest, hamcrest_core, v2_2)>>)
    @@ (spring_core_key :>
            <<Dep(commons_logging, commons_logging, v1_2),
              Dep(org_springframework, spring_jcl, v5_3_23)>>)
    @@ (Coord(org_springframework, spring_jcl) :>
            <<Dep(org_slf4j, slf4j_api, v1_7_36)>>)
    @@ (Coord(org_hamcrest, hamcrest_core) :>
            <<Dep(org_hamcrest, hamcrest_library, v2_2)>>)
    @@ (Coord(org_hamcrest, hamcrest_library) :>
            <<Dep(junit, junit, v4_13_2)>>)
    @@ (my_app_key :>
            <<Dep(junit, junit, v4_13_2),
              Dep(org_springframework, spring_core, v5_3_23),
              Dep(com_google_guava, guava, v31_1_jre)>>)
    @@ (Coord(com_google_guava, guava) :>
            <<Dep(com_google_guava, failureaccess, v1_0_1),
              Dep(com_google_guava, listenablefuture, v9999)>>)

\* test_dependencies['default']
default_dependencies ==
    <<Dep(junit, junit, v4_13_2), Dep(org_slf4j, slf4j_api, v1_7_36)>>

\* test_dependencies.get(package_key, test_dependencies['default'])
get_test_dependencies(group_id, artifact_id) ==
    LET package_key == group_id \o <<":">> \o artifact_id
    IN IF package_key \in DOMAIN test_dependencies
       THEN test_dependencies[package_key]
       ELSE default_dependencies

-----------------------------------------------------------------------------
(* The dependency source and get_package_dependencies *)

Ok(deps) == [ok |-> TRUE, deps |-> deps]
Failure == [ok |-> FALSE, deps |-> <<>>]

\* what _download_pom_file + _parse_dependencies_from_pom (or the fixture)
\* answer for a coordinate; a coordinate the source does not know fails
SourceResult(package) ==
    IF package \in DOMAIN source THEN source[package] ELSE Failure

\* variant: only a missing colon counts, as in _validate_arguments
Malformed_Loose(package) == ~HasColon(package)

\* len(package_parts) != 2
Malformed(package) == NumParts(package) # 2

\* variant: a node at the last allowed depth is suppressed as well
DepthExhausted_Boundary(current_depth) == current_depth + 1 >= config.max_depth

\* current_depth >= self.config['max_depth']
DepthExhausted(current_depth) == current_depth >= config.max_depth

\* does get_package_dependencies get as far as asking the source
CallsSource(package, current_depth) ==
    ~DepthExhausted(current_depth) /\ ~Malformed(package)

\* group_id, artifact_id = package_parts (of a two-part package)
ColonAt(package) == CHOOSE i \in 1..Len(package) : package[i] = ":"
GroupId(package) == SubSeq(package, 1, ColonAt(package) - 1)
ArtifactId(package) == SubSeq(package, ColonAt(package) + 1, Len(package))

get_package_dependencies(package, current_depth) ==
    IF DepthExhausted(current_depth) THEN <<>>
    ELSE IF Malformed(package) THEN <<>>
    ELSE IF config.mode = "remote"
         THEN (IF SourceResult(package).ok THEN SourceResult(package).deps
               ELSE <<>>)
         ELSE get_test_dependencies(GroupId(package), ArtifactId(package))

-----------------------------------------------------------------------------
(* _validate_arguments and _convert_args_to_config *)

\* s.startswith(prefix)
StartsWith(s, prefix) ==
    Len(s) >= Len(prefix) /\ SubSeq(s, 1, Len(prefix)) = prefix

Http == <<"h", "t", "t", "p", ":", "/", "/">>
Https == <<"h", "t", "t", "p", "s", ":", "/", "/">>

\* variant: the depth is not looked at
validate_arguments_AnyDepth(a) ==
    /\ HasColon(a.package)
    /\ ~(a.url # None /\ ~(StartsWith(a.url, Http) \/ StartsWith(a.url, Https)))

\* the three checks that append to `errors`; True when none did
validate_arguments(a) ==
    /\ HasColon(a.package)
    /\ ~(a.max_depth <= 0)
    /\ ~(a.url # None /\ ~(StartsWith(a.url, Http) \/ StartsWith(a.url, Https)))

\* args.test_repo once _validate_arguments has run: set by the flag's
\* absence of a URL (--url and --test-repo exclude each other)
test_repo(a) == a.url = None

convert_args_to_config(a) ==
    [package_name |-> a.package,
     tree_output |-> a.tree,
     max_depth |-> a.max_depth,
     filter_substring |-> a.filter,
     visualize |-> a.visualize,
     mode |-> IF test_repo(a) THEN "test" ELSE "remote"]

\* self.config before run() has stored one
EmptyConfig == [package_name |-> <<>>, tree_output |-> FALSE, max_depth |-> 0,
                filter_substring |-> None, visualize |-> FALSE,
                mode |-> "unset"]

\* demonstrate_examples has not been entered
NoDemo == [started |-> 0, original_package |-> <<>>]

-----------------------------------------------------------------------------
(* build_dependency_graph *)

Entry(package, depth) == [package |-> package, depth |-> depth]

\* variant: the build stops enqueueing one level early
ExpandsChildren_Short(depth) == depth + 2 < config.max_depth

\* variant: off by one, children of the boundary level are enqueued too
ExpandsChildren_OffByOne(depth) == depth + 1 <= config.max_depth

\* depth + 1 < self.config['max_depth']
ExpandsChildren(depth) == depth + 1 < config.max_depth

\* variant: the visited test at the pop is missing
AlreadyVisited_Never(package) == FALSE

\* current_package in self.visited_packages
AlreadyVisited(package) == package \in visited_packages

\* dep_key not in self.visited_packages
Enqueues(dep_key, visited) == dep_key \notin visited

\* variant: children are enqueued two levels below the parent
RECURSIVE ChildEntries_Deeper(_, _, _)
ChildEntries_Deeper(deps, depth, visited) ==
    IF deps = <<>> THEN <<>>
    ELSE (IF Enqueues(DepKey(Head(deps)), visited)
          THEN <<Entry(DepKey(Head(deps)), depth + 2)>>
          ELSE <<>>)
         \o ChildEntries_Deeper(Tail(deps), depth, visited)

\* variant: children are enqueued with the parent's depth
RECURSIVE ChildEntries_SameDepth(_, _, _)
ChildEntries_SameDepth(deps, depth, visited) ==
    IF deps = <<>> THEN <<>>
    ELSE (IF Enqueues(DepKey(Head(deps)), visited)
          THEN <<Entry(DepKey(Head(deps)), depth)>>
          ELSE <<>>)
         \o ChildEntries_SameDepth(Tail(deps), depth, visited)

\* the for-loop over the stored list: the entries appended to the queue
RECURSIVE ChildEntries(_, _, _)
ChildEntries(deps, depth, visited) ==
    IF deps = <<>> THEN <<>>
    ELSE (IF Enqueues(DepKey(Head(deps)), visited)
          THEN <<Entry(DepKey(Head(deps)), depth + 1)>>
          ELSE <<>>)
         \o ChildEntries(Tail(deps), depth, visited)

\* variant: self.visited_packages is not emptied
BuildStart_KeepVisited ==
    /\ pc = "build"
    /\ queue' = <<Entry(config.package_name, 0)>>
    /\ dependency_graph' = EmptyDict
    /\ fetchLog' = <<>>
    /\ writeLog' = <<>>
    /\ popLog' = <<>>
    /\ pc' = "loop"
    /\ UNCHANGED <<args, config, source, visited_packages, filterVars,
                   renderVars>>

\* self.build_dependency_graph() is entered: queue seeded, state reset
BuildStart ==
    /\ pc = "build"
    /\ queue' = <<Entry(config.package_name, 0)>>
    /\ dependency_graph' = EmptyDict
    /\ visited_packages' = {}
    /\ fetchLog' = <<>>
    /\ writeLog' = <<>>
    /\ popLog' = <<>>
    /\ pc' = "loop"
    /\ UNCHANGED <<args, config, source, filterVars, renderVars>>

\* variant: the visited entry is looked at but not removed
LoopSkip_NoPop ==
    /\ pc = "loop"
    /\ queue # <<>>
    /\ AlreadyVisited(Head(queue).package)
    /\ UNCHANGED vars

\* one iteration that pops an already visited coordinate: `continue`
LoopSkip ==
    /\ pc = "loop"
    /\ queue # <<>>
    /\ AlreadyVisited(Head(queue).package)
    /\ queue' = Tail(queue)
    /\ popLog' = Append(popLog, Head(queue))
    /\ UNCHANGED <<args, config, source, dependency_graph, visited_packages,
                   pc, fetchLog, writeLog, filterVars, renderVars>>

\* variant: the filter shapes the stored list only, the unfiltered records
\* are enqueued
LoopExpand_EnqueueAll ==
    /\ pc = "loop"
    /\ queue # <<>>
    /\ ~AlreadyVisited(Head(queue).package)
    /\ popLog' = Append(popLog, Head(queue))
    /\ LET current_package == Head(queue).package
           depth == Head(queue).depth
           visited == visited_packages \cup {current_package}
           fetched == get_package_dependencies(current_package, depth)
           deps == apply_filter(fetched, config.filter_substring)
       IN /\ visited_packages' = visited
          /\ fetchLog' = IF CallsSource(current_package, depth)
                         THEN Append(fetchLog, current_package)
                         ELSE fetchLog
          /\ dependency_graph' = SetItem(dependency_graph, current_package, deps)
          /\ writeLog' = Append(writeLog, Entry(current_package, depth))
          /\ queue' = IF ExpandsChildren(depth)
                      THEN Tail(queue) \o ChildEntries(fetched, depth, visited)
                      ELSE Tail(queue)
    /\ UNCHANGED <<args, config, source, pc, filterVars, renderVars>>

\* variant: the children go to the front of the queue
LoopExpand_Lifo ==
    /\ pc = "loop"
    /\ queue # <<>>
    /\ ~AlreadyVisited(Head(queue).package)
    /\ popLog' = Append(popLog, Head(queue))
    /\ LET current_package == Head(queue).package
           depth == Head(queue).depth
           visited == visited_packages \cup {current_package}
           deps == apply_filter(
                       get_package_dependencies(current_package, depth),
                       config.filter_substring)
       IN /\ visited_packages' = visited
          /\ fetchLog' = IF CallsSource(current_package, depth)
                         THEN Append(fetchLog, current_package)
                         ELSE fetchLog
          /\ dependency_graph' = SetItem(dependency_graph, current_package, deps)
          /\ writeLog' = Append(writeLog, Entry(current_package, depth))
          /\ queue' = IF ExpandsChildren(depth)
                      THEN ChildEntries(deps, depth, visited) \o Tail(queue)
                      ELSE Tail(queue)
    /\ UNCHANGED <<args, config, source, pc, filterVars, renderVars>>

\* one iteration that expands the popped coordinate
LoopExpand ==
    /\ pc = "loop"
    /\ queue # <<>>
    /\ ~AlreadyVisited(Head(queue).package)
    /\ popLog' = Append(popLog, Head(queue))
    /\ LET current_package == Head(queue).package
           depth == Head(queue).depth
           visited == visited_packages \cup {current_package}
           deps == apply_filter(
                       get_package_dependencies(current_package, depth),
                       config.filter_substring)
       IN /\ visited_packages' = visited
          /\ fetchLog' = IF CallsSource(current_package, depth)
                         THEN Append(fetchLog, current_package)
                         ELSE fetchLog
          /\ dependency_graph' = SetItem(dependency_graph, current_package, deps)
          /\ writeLog' = Append(writeLog, Entry(current_package, depth))
          /\ queue' = IF ExpandsChildren(depth)
                      THEN Tail(queue) \o ChildEntries(deps, depth, visited)
                      ELSE Tail(queue)
    /\ UNCHANGED <<args, config, source, pc, filterVars, renderVars>>

\* the queue is empty: the while loop ends and build returns
BuildDone ==
    /\ pc = "loop"
    /\ queue = <<>>
    /\ pc' = "built"
    /\ UNCHANGED <<buildVars, filterVars, renderVars>>

-----------------------------------------------------------------------------
(* run *)

\* _validate_arguments returns False: sys.exit(1)
RunReject ==
    /\ pc = "run"
    /\ ~validate_arguments(args)
    /\ pc' = "exit"
    /\ UNCHANGED <<buildVars, filterVars, renderVars>>

\* _validate_arguments returns True: the config is stored
RunConfigure ==
    /\ pc = "run"
    /\ validate_arguments(args)
    /\ config' = convert_args_to_config(args)
    /\ pc' = "build"
    /\ UNCHANGED <<args, source, queue, dependency_graph, visited_packages,
                   fetchLog, writeLog, popLog, filterVars, renderVars>>

-----------------------------------------------------------------------------
(* print_direct_dependencies *)

\* f"{i:2}. {groupId}:{artifactId}:{version}", numbered from 1
FlatLine(i, dep) == [index |-> i, text |-> Composite(dep)]

\* "Прямые зависимости не найдены"
NothingFound == <<[index |-> 0, text |-> <<>>]>>

print_direct_dependencies(g, root_package) ==
    IF root_package \notin Keys(g) THEN NothingFound
    ELSE IF Get(g, root_package) = <<>> THEN NothingFound
    ELSE [i \in 1..Len(Get(g, root_package)) |->
            FlatLine(i, Get(g, root_package)[i])]

\* run(): which output comes after the flat listing
AfterDirect ==
    IF config.tree_output THEN "tree"
    ELSE IF config.visualize THEN "visualize" ELSE "demo"

\* run(): which output comes after the tree
AfterTree == IF config.visualize THEN "visualize" ELSE "demo"

\* variant: the listing takes the records out of the root's list
PrintDirect_Consumes ==
    /\ pc = "built"
    /\ demo.started = 0
    /\ flat_out' = print_direct_dependencies(dependency_graph,
                                             config.package_name)
    /\ dependency_graph' = SetItem(dependency_graph, config.package_name, <<>>)
    /\ pc' = AfterDirect
    /\ UNCHANGED <<args, config, source, queue, visited_packages, fetchLog,
                   writeLog, popLog, filterVars, stack, tree_out, d2_content,
                   demo>>

\* self.print_direct_dependencies() in run()
PrintDirect ==
    /\ pc = "built"
    /\ demo.started = 0
    /\ flat_out' = print_direct_dependencies(dependency_graph,
                                             config.package_name)
    /\ pc' = AfterDirect
    /\ UNCHANGED <<buildVars, filterVars, stack, tree_out, d2_content, demo>>

-----------------------------------------------------------------------------
(* print_ascii_tree and _print_tree_node *)

LastGlyph == "+-- "     \* stands for the corner glyph, two dashes and a space
MidGlyph == "|-- "      \* stands for the tee glyph, two dashes and a space

\* a printed line: indent is "  " * level; kind tells the suffix, none for
\* "node", the cyclic-dependency text for "cyclic", the depth-limited text
\* for "limited"
Line(level, connector, package, kind) ==
    [level |-> level, connector |-> connector, package |-> package,
     kind |-> kind]

\* a call of _print_tree_node: its arguments, whether the node line has been
\* printed, and how many children the for-loop has dealt with
Frame(package, level, visited) ==
    [package |-> package, level |-> level, visited |-> visited,
     entered |-> FALSE, i |-> 0]

Top == stack[Len(stack)]

\* variant: no cycle check at all
OnPath_Never(package, visited) == FALSE

\* variant: one set for the whole render, every printed node stays in it
OnPath_Global(package, visited) ==
    \E n \in 1..Len(tree_out) :
        tree_out[n].package = package /\ tree_out[n].kind = "node"

\* package in visited
OnPath(package, visited) == package \in visited

\* connector = LastGlyph if level > 0 else ""
NodeConnector(level) == IF level > 0 THEN LastGlyph ELSE ""

\* is_last = i == len(dependencies) - 1; connector by is_last (i from 1 here)
ChildConnector(i, n) == IF i = n THEN LastGlyph ELSE MidGlyph

\* variant: the boundary one level further down
RendersChild_Inclusive(level) == level + 1 <= config.max_depth

\* level + 1 < self.config['max_depth']
RendersChild(level) == level + 1 < config.max_depth

\* the children the for-loop of the top call runs over
TopChildren ==
    IF Top.package \in Keys(dependency_graph)
    THEN Get(dependency_graph, Top.package)
    ELSE <<>>

\* the call stack once the top call has returned: the callee worked on
\* visited.copy(), so the caller's frame is what it was
Popped == SubSeq(stack, 1, Len(stack) - 1)

\* print_ascii_tree: the empty-Graph message, or the call for the root
PrintAsciiTree ==
    /\ pc = "tree"
    /\ IF dependency_graph = EmptyDict
       THEN /\ pc' = AfterTree
            /\ stack' = <<>>
       ELSE /\ pc' = "tree_node"
            /\ stack' = <<Frame(config.package_name, 0, {})>>
    /\ tree_out' = <<>>
    /\ UNCHANGED <<buildVars, filterVars, flat_out, d2_content, demo>>

\* the call finds its package on the path: marker line, return
TreeCyclic ==
    /\ pc = "tree_node"
    /\ ~Top.entered
    /\ OnPath(Top.package, Top.visited)
    /\ tree_out' = Append(tree_out,
                          Line(Top.level, LastGlyph, Top.package, "cyclic"))
    /\ stack' = Popped
    /\ pc' = IF Len(stack) = 1 THEN AfterTree ELSE pc
    /\ UNCHANGED <<buildVars, filterVars, flat_out, d2_content, demo>>

\* visited.add(package) and the node's own line
TreeNode ==
    /\ pc = "tree_node"
    /\ ~Top.entered
    /\ ~OnPath(Top.package, Top.visited)
    /\ tree_out' = Append(tree_out,
                          Line(Top.level, NodeConnector(Top.level),
                               Top.package, "node"))
    /\ stack' = [stack EXCEPT ![Len(stack)] =
                    [Top EXCEPT !.entered = TRUE,
                                !.visited = Top.visited \cup {Top.package}]]
    /\ UNCHANGED <<buildVars, filterVars, pc, flat_out, d2_content, demo>>

\* a for-loop iteration that recurses: _print_tree_node(dep_key, level + 1,
\* visited.copy())
TreeRecurse ==
    /\ pc = "tree_node"
    /\ Top.entered
    /\ Top.i < Len(TopChildren)
    /\ RendersChild(Top.level)
    /\ stack' = Append([stack EXCEPT ![Len(stack)] =
                           [Top EXCEPT !.i = Top.i + 1]],
                       Frame(DepKey(TopChildren[Top.i + 1]), Top.level + 1,
                             Top.visited))
    /\ UNCHANGED <<buildVars, filterVars, pc, tree_out, flat_out, d2_content,
                   demo>>

\* a for-loop iteration at the depth boundary: the depth-limited line
TreeLimited ==
    /\ pc = "tree_node"
    /\ Top.entered
    /\ Top.i < Len(TopChildren)
    /\ ~RendersChild(Top.level)
    /\ tree_out' = Append(tree_out,
                          Line(Top.level + 1,
                               ChildConnector(Top.i + 1, Len(TopChildren)),
                               DepKey(TopChildren[Top.i + 1]), "limited"))
    /\ stack' = [stack EXCEPT ![Len(stack)] = [Top EXCEPT !.i = Top.i + 1]]
    /\ UNCHANGED <<buildVars, filterVars, pc, flat_out, d2_content, demo>>

\* variant: the call finds its loop over and does not return
TreeReturn_NoReturn ==
    /\ pc = "tree_node"
    /\ Top.entered
    /\ Top.i = Len(TopChildren)
    /\ UNCHANGED vars

\* the for-loop is over (or the package is no key): visited.remove(package)
\* on the call's own copy, return
TreeReturn ==
    /\ pc = "tree_node"
    /\ Top.entered
    /\ Top.i = Len(TopChildren)
    /\ stack' = Popped
    /\ pc' = IF Len(stack) = 1 THEN AfterTree ELSE pc
    /\ UNCHANGED <<buildVars, filterVars, tree_out, flat_out, d2_content,
                   demo>>

-----------------------------------------------------------------------------
(* generate_d2_diagram and visualize_graph *)

\* the fixed text the diagram starts with (its first line, a comment in
\* Cyrillic, is transliterated)
D2Header ==
    <<"#", " ", "G", "r", "a", "f", " ", "z", "a", "v", "i", "s", "i", "m",
      "o", "s", "t", "e", "j", " ", "M", "a", "v", "e", "n", "\n", "\n",
      "d", "i", "r", "e", "c", "t", "i", "o", "n", ":", " ", "r", "i", "g",
      "h", "t", "\n", "c", "l", "a", "s", "s", "e", "s", ":", " ", "{",
      "\n", " ", " ", "s", "t", "y", "l", "e", ":", " ", "{", "\n", " ",
      " ", " ", " ", "s", "t", "r", "o", "k", "e", ":", " ", "g", "r", "e",
      "e", "n", "\n", " ", " ", " ", " ", "f", "i", "l", "l", ":", " ",
      "l", "i", "g", "h", "t", "g", "r", "e", "e", "n", "\n", " ", " ",
      "}", "\n", "}", "\n", "\n">>

\* f'"{package}"\n'
NodeDecl(package) == <<"\"">> \o package \o <<"\"", "\n">>

\* f'"{package}" -> "{dep_key}"\n'
EdgeStmt(package, dep_key) ==
    <<"\"">> \o package \o <<"\"", " ", "-", ">", " ", "\"">> \o dep_key
    \o <<"\"", "\n">>

\* variant: the declarations come out last key first
RECURSIVE NodeLines_Reversed(_)
NodeLines_Reversed(g) ==
    IF g = <<>> THEN <<>>
    ELSE NodeLines_Reversed(Tail(g)) \o NodeDecl(Head(g).key)

\* for package in self.dependency_graph: one declaration each
RECURSIVE NodeLines(_)
NodeLines(g) ==
    IF g = <<>> THEN <<>>
    ELSE NodeDecl(Head(g).key) \o NodeLines(Tail(g))

\* variant: a target that comes again later in the list is left out
RECURSIVE EdgesOf_Dedup(_, _)
EdgesOf_Dedup(package, deps) ==
    IF deps = <<>> THEN <<>>
    ELSE (IF \E i \in 2..Len(deps) : DepKey(deps[i]) = DepKey(Head(deps))
          THEN <<>>
          ELSE EdgeStmt(package, DepKey(Head(deps))))
         \o EdgesOf_Dedup(package, Tail(deps))

\* for dep in dependencies: one edge statement each
RECURSIVE EdgesOf(_, _)
EdgesOf(package, deps) ==
    IF deps = <<>> THEN <<>>
    ELSE EdgeStmt(package, DepKey(Head(deps))) \o EdgesOf(package, Tail(deps))

\* for package, dependencies in self.dependency_graph.items()
RECURSIVE EdgeLines(_)
EdgeLines(g) ==
    IF g = <<>> THEN <<>>
    ELSE EdgesOf(Head(g).key, Head(g).deps) \o EdgeLines(Tail(g))

generate_d2_diagram(g) == D2Header \o NodeLines(g) \o EdgeLines(g)

\* self.visualize_graph() in run(): the text is printed and written to the
\* .d2 file; a missing d2 program is reported and changes nothing
VisualizeGraph ==
    /\ pc = "visualize"
    /\ d2_content' = IF dependency_graph = EmptyDict THEN d2_content
                     ELSE generate_d2_diagram(dependency_graph)
    /\ pc' = "demo"
    /\ UNCHANGED <<buildVars, filterVars, stack, tree_out, flat_out, demo>>

-----------------------------------------------------------------------------
(* demonstrate_examples and the end of run *)

examples == <<junit_junit, spring_core_key, my_app_key>>

\* a loop iteration up to its call of build_dependency_graph
DemoStart ==
    /\ pc = "demo"
    /\ demo.started < Len(examples)
    /\ demo' = [started |-> demo.started + 1,
                original_package |-> config.package_name]
    /\ config' = [config EXCEPT !.package_name = examples[demo.started + 1]]
    /\ pc' = "build"
    /\ UNCHANGED <<args, source, queue, dependency_graph, visited_packages,
                   fetchLog, writeLog, popLog, filterVars, stack, tree_out,
                   flat_out, d2_content>>

\* the rest of the iteration: totals printed, root restored, Graph emptied
DemoFinish ==
    /\ pc = "built"
    /\ demo.started > 0
    /\ config' = [config EXCEPT !.package_name = demo.original_package]
    /\ dependency_graph' = EmptyDict
    /\ pc' = "demo"
    /\ UNCHANGED <<args, source, queue, visited_packages, fetchLog, writeLog,
                   popLog, filterVars, renderVars>>

\* the examples are through: compare_with_maven prints, run ends
RunEnd ==
    /\ pc = "demo"
    /\ demo.started = Len(examples)
    /\ pc' = "done"
    /\ UNCHANGED <<buildVars, filterVars, renderVars>>

-----------------------------------------------------------------------------
(* Inputs *)

V10 == <<"1", ".", "0">>

aa == Coord(<<"a">>, <<"a">>)
bb == Coord(<<"b">>, <<"b">>)
cc == Coord(<<"c">>, <<"c">>)
dd == Coord(<<"d">>, <<"d">>)
xx == Coord(<<"x">>, <<"x">>)
yy == Coord(<<"y">>, <<"y">>)
abc == <<"a", ":", "b", ":", "c">>      \* three parts
ab == <<"a", "b">>                      \* no colon at all

rA == Dep(<<"a">>, <<"a">>, V10)
rB == Dep(<<"b">>, <<"b">>, V10)
rC == Dep(<<"c">>, <<"c">>, V10)
rD == Dep(<<"d">>, <<"d">>, V10)
rX == Dep(<<"x">>, <<"x">>, V10)
rY == Dep(<<"y">>, <<"y">>, V10)
rM == Dep(<<"a", ":", "b">>, <<"c">>, V10)   \* its key a:b:c is malformed
rLib == Dep(<<"b">>, <<"l", "i", "b">>, V10)
rTest == Dep(<<"c">>, <<"t", "e", "s", "t">>, V10)
test == <<"t", "e", "s", "t">>

RepoUrl == Https \o <<"r">>
BadUrl == <<"f", "t", "p", ":", "/", "/", "r">>

\* Scenarios A and C of the specification (diamond)
SourceA == (aa :> Ok(<<rB, rC>>)) @@ (bb :> Ok(<<rD>>))
           @@ (cc :> Ok(<<rD>>)) @@ (dd :> Ok(<<>>))

\* Scenario B (2-cycle)
SourceB == (xx :> Ok(<<rY>>)) @@ (yy :> Ok(<<rX>>))

\* Scenario D (filter)
SourceD == (aa :> Ok(<<rLib, rTest>>)) @@ (DepKey(rLib) :> Ok(<<>>))
           @@ (DepKey(rTest) :> Ok(<<>>))

\* a command line with --tree and --visualize given or not
RunArgs(package, max_depth, filter, url, tree, visualize) ==
    [package |-> package, max_depth |-> max_depth, filter |-> filter,
     url |-> url, tree |-> tree, visualize |-> visualize]

\* a command line without --tree and --visualize
Args(package, max_depth, filter, url) ==
    RunArgs(package, max_depth, filter, url, FALSE, FALSE)

Scenarios ==
    { [args |-> Args(aa, 3, None, RepoUrl), source |-> SourceA],
      [args |-> Args(xx, 4, None, RepoUrl), source |-> SourceB],
      [args |-> Args(aa, 2, None, RepoUrl), source |-> SourceA],
      [args |-> Args(aa, 3, test, RepoUrl), source |-> SourceD] }

\* all sequences over S of length at most n
SeqsUpTo(S, n) == UNION {[1..k -> S] : k \in 0..n}

GenRecords == {rA, rB, rC, rM}

GenResults == {Failure} \cup {Ok(l) : l \in SeqsUpTo(GenRecords, MaxDeps)}

\* generated sources: a:a and b:b answer anything, c:c -> [d:d], d:d unknown
GenSources ==
    {(aa :> ra) @@ (bb :> rb) @@ (cc :> Ok(<<rD>>)) :
        ra \in GenResults, rb \in GenResults}

BuildFilters == {None, <<>>, <<"B">>}

Generated ==
    { [args |-> Args(aa, d, f, RepoUrl), source |-> src] :
        d \in 1..MaxDepthBound, f \in BuildFilters, src \in GenSources }

\* command lines with a questionable root, depth or URL
Questionable ==
    { [args |-> Args(p, d, None, u), source |-> SourceA] :
        p \in {aa, abc, ab}, d \in {-1, 0, 1, 2}, u \in {RepoUrl, BadUrl} }

\* no --url: the fixture answers, whatever `source` holds
TestMode ==
    { [args |-> Args(p, d, f, None), source |-> SourceB] :
        p \in {junit_junit, spring_core_key, my_app_key, aa},
        d \in 1..MaxDepthBound, f \in {None, junit} }

Inputs == Scenarios \cup Generated \cup Questionable \cup TestMode

-----------------------------------------------------------------------------
(* The run: validation, then build *)

Init ==
    /\ \E in \in Inputs : args = in.args /\ source = in.source
    /\ config = EmptyConfig
    /\ queue = <<>>
    /\ dependency_graph = EmptyDict
    /\ visited_packages = {}
    /\ pc = "run"
    /\ fetchLog = <<>>
    /\ writeLog = <<>>
    /\ popLog = <<>>
    /\ dependencies = <<>>
    /\ filtered = <<>>
    /\ refiltered = <<>>
    /\ stack = <<>>
    /\ tree_out = <<>>
    /\ flat_out = <<>>
    /\ d2_content = <<>>
    /\ demo = NoDemo

Next ==
    \/ RunReject
    \/ RunConfigure
    \/ BuildStart
    \/ LoopSkip
    \/ LoopExpand
    \/ BuildDone

Spec == Init /\ [][Next]_vars

\* the loop is a sequential program: it takes its next step whenever it has one
FairSpec == Spec /\ WF_vars(Next)

-----------------------------------------------------------------------------
(* The whole run: validation, build, the outputs, the examples *)

\* the four scenarios with every choice of --tree and --visualize
RunScenarios ==
    { [args |-> RunArgs(in.args.package, in.args.max_depth, in.args.filter,
                        in.args.url, t, v),
       source |-> in.source] : in \in Scenarios, t \in BOOLEAN, v \in BOOLEAN }

RunRecords == {rA, rB, rC}

\* generated sources for the outputs: self-loops, 2-cycles, diamonds and
\* repeated records among them; c:c -> [d:d], d:d unknown
RunSources ==
    {(aa :> ra) @@ (bb :> rb) @@ (cc :> Ok(<<rD>>)) :
        ra \in {Failure} \cup {Ok(l) : l \in SeqsUpTo(RunRecords, MaxDeps)},
        rb \in {Failure} \cup {Ok(l) : l \in SeqsUpTo({rA, rC}, MaxDeps)}}

RunGenerated ==
    { [args |-> RunArgs(aa, d, None, RepoUrl, TRUE, TRUE), source |-> src] :
        d \in 1..MaxDepthBound, src \in RunSources }

\* no --url: the fixture answers
RunTestMode ==
    { [args |-> RunArgs(p, d, f, None, TRUE, TRUE), source |-> SourceB] :
        p \in {junit_junit, spring_core_key, my_app_key, aa},
        d \in 1..MaxDepthBound, f \in {None, junit} }

\* command lines _validate_arguments turns down
RunRejected ==
    { [args |-> RunArgs(p, d, None, RepoUrl, TRUE, TRUE), source |-> SourceA] :
        p \in {aa, ab}, d \in {-1, 0, 1} }

RunInputs == RunScenarios \cup RunGenerated \cup RunTestMode \cup RunRejected

InitRun ==
    /\ \E in \in RunInputs : args = in.args /\ source = in.source
    /\ config = EmptyConfig
    /\ queue = <<>>
    /\ dependency_graph = EmptyDict
    /\ visited_packages = {}
    /\ pc = "run"
    /\ fetchLog = <<>>
    /\ writeLog = <<>>
    /\ popLog = <<>>
    /\ dependencies = <<>>
    /\ filtered = <<>>
    /\ refiltered = <<>>
    /\ stack = <<>>
    /\ tree_out = <<>>
    /\ flat_out = <<>>
    /\ d2_content = <<>>
    /\ demo = NoDemo

NextRun ==
    \/ RunReject
    \/ RunConfigure
    \/ BuildStart
    \/ LoopSkip
    \/ LoopExpand
    \/ BuildDone
    \/ PrintDirect
    \/ PrintAsciiTree
    \/ TreeCyclic
    \/ TreeNode
    \/ TreeRecurse
    \/ TreeLimited
    \/ TreeReturn
    \/ VisualizeGraph
    \/ DemoStart
    \/ DemoFinish
    \/ RunEnd

SpecRun == InitRun /\ [][NextRun]_vars

\* run() is a sequential program: it takes its next step whenever it has one
FairRun == SpecRun /\ WF_vars(NextRun)

-----------------------------------------------------------------------------
(* _apply_filter on its own: called on a list, then on its own result *)

rUpper == Dep(<<"c">>, <<"T", "e", "s", "T">>, <<"2", ".", "0">>)

FilterRecords == {rB, rLib, rTest, rUpper}

FilterSubstrings ==
    { None, <<>>, test, <<"T", "E", "S", "T">>, <<"b", ":", "l">>,
      <<"t", ":", "1">>, <<":">>, <<"z">> }

InitFilter ==
    /\ \E s \in FilterSubstrings :
          config = [EmptyConfig EXCEPT !.filter_substring = s]
    /\ dependencies \in SeqsUpTo(FilterRecords, MaxFilterList)
    /\ filtered = <<>>
    /\ refiltered = <<>>
    /\ pc = "filter"
    /\ args = Args(aa, 1, None, None)
    /\ source = SourceD
    /\ queue = <<>>
    /\ dependency_graph = EmptyDict
    /\ visited_packages = {}
    /\ fetchLog = <<>>
    /\ writeLog = <<>>
    /\ popLog = <<>>
    /\ stack = <<>>
    /\ tree_out = <<>>
    /\ flat_out = <<>>
    /\ d2_content = <<>>
    /\ demo = NoDemo

\* dependencies = self._apply_filter(dependencies)
FilterCall ==
    /\ pc = "filter"
    /\ filtered' = apply_filter(dependencies, config.filter_substring)
    /\ pc' = "filtered"
    /\ UNCHANGED <<buildVars, dependencies, refiltered, renderVars>>

\* the same call on the list just returned
FilterAgain ==
    /\ pc = "filtered"
    /\ refiltered' = apply_filter(filtered, config.filter_substring)
    /\ pc' = "refiltered"
    /\ UNCHANGED <<buildVars, dependencies, filtered, renderVars>>

NextFilter == FilterCall \/ FilterAgain

SpecFilter == InitFilter /\ [][NextFilter]_vars

-----------------------------------------------------------------------------
(* Vocabulary of the properties *)

Elems(seq) == {seq[i] : i \in 1..Len(seq)}

NoDup(seq) == \A i, j \in 1..Len(seq) : i # j => seq[i] # seq[j]

Packages(log) == [i \in 1..Len(log) |-> log[i].package]

\* the queue depth at which a key was expanded
ExpandedDepth(k) ==
    writeLog[CHOOSE i \in 1..Len(writeLog) : writeLog[i].package = k].depth

\* the targets of the stored edges of a key
Children(g, k) == {DepKey(Get(g, k)[i]) : i \in 1..Len(Get(g, k))}

\* coordinates at most n stored edges away from r
RECURSIVE Within(_, _, _)
Within(g, r, n) ==
    IF n = 0 THEN {r}
    ELSE LET prev == Within(g, r, n - 1)
         IN prev \cup UNION {Children(g, k) : k \in prev \cap Keys(g)}

\* substring s occurs in hay at offset i, letter case ignored
MatchesAt(s, hay, i) ==
    \A j \in 1..Len(s) : LowerChar(hay[i + j]) = LowerChar(s[j])

\* the record's group:artifact:version contains s, letter case ignored
Selected(dep, s) ==
    \E i \in 0..(Len(Composite(dep)) - Len(s)) : MatchesAt(s, Composite(dep), i)

KeptIndices(deps, s) ==
    {i \in 1..Len(deps) : Falsy(s) \/ Selected(deps[i], s)}

\* the n-th smallest element of a set of numbers
Nth(S, n) == CHOOSE i \in S : Cardinality({k \in S : k < i}) = n - 1

\* the records of deps the substring selects, in their original order
Subsequence(deps, s) ==
    [n \in 1..Cardinality(KeptIndices(deps, s)) |->
        deps[Nth(KeptIndices(deps, s), n)]]

Built == pc = "built"

\* the source has an answer for coordinate k
Answers(k) ==
    config.mode = "test" \/ (k \in DOMAIN source /\ source[k].ok)

\* that answer
Answer(k) ==
    IF config.mode = "test"
    THEN get_test_dependencies(GroupId(k), ArtifactId(k))
    ELSE source[k].deps

-----------------------------------------------------------------------------
(* C1: within one build the source is asked at most once per coordinate and
   each coordinate's Graph entry is written at most once; popping an already
   visited coordinate causes no fetch and leaves Graph and visited set
   alone. *)

C1_Once == NoDup(fetchLog) /\ NoDup(Packages(writeLog))

C1_SkipIsNoOp ==
    (pc = "loop" /\ queue # <<>> /\ Head(queue).package \in visited_packages)
        => /\ fetchLog' = fetchLog
           /\ writeLog' = writeLog
           /\ dependency_graph' = dependency_graph
           /\ visited_packages' = visited_packages

C1_AtMostOneExpansion == []C1_Once /\ [][C1_SkipIsNoOp]_vars

\* a fetched coordinate was popped twice (it sat in the queue twice)
C1_Witness ==
    /\ Built
    /\ \E i, j \in 1..Len(popLog) :
          /\ i < j
          /\ popLog[i].package = popLog[j].package
          /\ popLog[i].package \in Elems(fetchLog)

-----------------------------------------------------------------------------
(* C2: in a finished Graph built with maxDepth = d, a child of a key that was
   expanded at depth d-1 is itself a key only if it lies within d-1 stored
   edges of the root; a coordinate whose shortest distance is exactly d is
   never a key. *)

C2_DepthBoundary ==
    Built =>
        LET g == dependency_graph
            d == config.max_depth
            r == config.package_name
        IN /\ \A k \in Keys(g) :
                ExpandedDepth(k) = d - 1 =>
                    \A c \in Children(g, k) :
                        c \in Keys(g) => c \in Within(g, r, d - 1)
           /\ \A c \in Within(g, r, d) \ Within(g, r, d - 1) : c \notin Keys(g)

\* a boundary key has one child that is a key and one that is not
C2_Witness ==
    /\ Built
    /\ \E k \in Keys(dependency_graph) :
          /\ ExpandedDepth(k) = config.max_depth - 1
          /\ \E c \in Children(dependency_graph, k) : c \in Keys(dependency_graph)
          /\ \E c \in Children(dependency_graph, k) : c \notin Keys(dependency_graph)

-----------------------------------------------------------------------------
(* C3: every well-formed key the source answers for was fetched, and its
   stored list is the filtered answer: the selected records in the source's
   order, also for a key expanded at depth maxDepth-1. *)

C3_StoredListVerbatim ==
    \A i \in 1..Len(dependency_graph) :
        LET k == dependency_graph[i].key
        IN (NumParts(k) = 2 /\ Answers(k)) =>
              /\ k \in Elems(fetchLog)
              /\ dependency_graph[i].deps =
                    Subsequence(Answer(k), config.filter_substring)

\* a non-root key at the depth boundary holds a non-empty list
C3_Witness ==
    /\ Built
    /\ config.max_depth >= 2
    /\ \E k \in Keys(dependency_graph) :
          /\ ExpandedDepth(k) = config.max_depth - 1
          /\ Get(dependency_graph, k) # <<>>
          /\ NumParts(k) = 2 /\ Answers(k)

-----------------------------------------------------------------------------
(* C4: Scenario C (the diamond source, root a:a, maxDepth = 2, no filter)
   ends with the Graph {a:a: [b:b, c:c], b:b: [d:d], c:c: [d:d]}: the
   boundary keys b:b and c:c keep their direct lists, and d:d is not a key. *)

ScenarioC == args = Args(aa, 2, None, RepoUrl) /\ source = SourceA

\* the statement as first made: b:b and c:c recorded with empty lists
C4_BoundaryLeavesEmpty ==
    (ScenarioC /\ Built) =>
        /\ Keys(dependency_graph) = {aa, bb, cc}
        /\ Get(dependency_graph, aa) = <<rB, rC>>
        /\ Get(dependency_graph, bb) = <<>>
        /\ Get(dependency_graph, cc) = <<>>

C4_ScenarioC ==
    (ScenarioC /\ Built) =>
        /\ Keys(dependency_graph) = {aa, bb, cc}
        /\ Get(dependency_graph, aa) = <<rB, rC>>
        /\ Get(dependency_graph, bb) = <<rD>>
        /\ Get(dependency_graph, cc) = <<rD>>

C4_Witness == ScenarioC /\ Built /\ Len(dependency_graph) = 3

-----------------------------------------------------------------------------
(* C5: a root that does not parse as group:artifact makes build fail: no
   Graph entry, no fetch, and build never returns a Graph for it. *)

C5_MalformedRootIsFatal ==
    NumParts(args.package) # 2 =>
        /\ dependency_graph = EmptyDict
        /\ fetchLog = <<>>
        /\ pc # "built"

-----------------------------------------------------------------------------
(* C6: expanding a non-root coordinate that is malformed or whose fetch fails
   records an empty list for it, enqueues nothing, leaves the rest of the
   queue as it was and stays in the loop; for a malformed coordinate the
   source is not called. *)

IsLeafByFailure(k) ==
    k # config.package_name /\ (NumParts(k) # 2 \/ ~Answers(k))

C6_Step ==
    (/\ pc = "loop"
     /\ queue # <<>>
     /\ Head(queue).package \notin visited_packages
     /\ IsLeafByFailure(Head(queue).package))
        => /\ dependency_graph' =
                Append(dependency_graph,
                       [key |-> Head(queue).package, deps |-> <<>>])
           /\ queue' = Tail(queue)
           /\ visited_packages' = visited_packages \cup {Head(queue).package}
           /\ pc' = "loop"
           /\ (NumParts(Head(queue).package) # 2 => fetchLog' = fetchLog)

C6_SoftFailure == [][C6_Step]_vars

\* a failed fetch was followed by the expansion of a malformed coordinate
C6_Witness ==
    /\ Built
    /\ \E i, j \in 1..Len(writeLog) :
          /\ i < j
          /\ writeLog[i].package # config.package_name
          /\ writeLog[i].package \in Elems(fetchLog)
          /\ ~Answers(writeLog[i].package)
          /\ NumParts(writeLog[j].package) # 2
          /\ writeLog[j].package \notin Elems(fetchLog)
          /\ Get(dependency_graph, writeLog[i].package) = <<>>
          /\ Get(dependency_graph, writeLog[j].package) = <<>>

-----------------------------------------------------------------------------
(* C7: once build has been entered the queue runs empty and build returns,
   cycles and self-loops included; the 2-cycle x:x <-> y:y with maxDepth = 4
   ends with the Graph {x:x: [y:y], y:y: [x:x]}. *)

ScenarioB == args = Args(xx, 4, None, RepoUrl) /\ source = SourceB

C7_Terminates ==
    /\ (pc = "build") ~> (pc = "built" /\ queue = <<>>)
    /\ []((ScenarioB /\ Built) =>
            dependency_graph = << [key |-> xx, deps |-> <<rY>>],
                                  [key |-> yy, deps |-> <<rX>>] >>)

C7_Witness == ScenarioB /\ Built /\ Len(popLog) = 2

-----------------------------------------------------------------------------
(* C8: with a non-empty substring s, _apply_filter returns exactly the
   records whose group:artifact:version contains s, letter case ignored, in
   their original order; [b:lib@1.0, c:test@1.0] with "test" gives
   [c:test@1.0]. *)

C8_FilterSelects ==
    (pc \in {"filtered", "refiltered"} /\ ~Falsy(config.filter_substring))
        => /\ filtered = Subsequence(dependencies, config.filter_substring)
           /\ (dependencies = <<rLib, rTest>> /\ config.filter_substring = test
                  => filtered = <<rTest>>)

C8_Witness ==
    /\ pc = "filtered"
    /\ dependencies = <<rLib, rTest>>
    /\ config.filter_substring = test
    /\ filtered = <<rTest>>

-----------------------------------------------------------------------------
(* C9: _apply_filter is idempotent: filtering its own result with the same
   substring returns that result. *)

C9_Idempotent == pc = "refiltered" => refiltered = filtered

\* a filter that dropped some records and kept others was applied twice
C9_Witness ==
    /\ pc = "refiltered"
    /\ ~Falsy(config.filter_substring)
    /\ Len(filtered) > 0
    /\ Len(filtered) < Len(dependencies)

-----------------------------------------------------------------------------
(* C10: with the substring absent (None) or empty, _apply_filter returns the
   list it was given, unchanged. *)

C10_NoFilterIdentity ==
    (pc \in {"filtered", "refiltered"} /\ Falsy(config.filter_substring))
        => filtered = dependencies

C10_Witness ==
    /\ pc = "filtered"
    /\ config.filter_substring = None
    /\ Len(dependencies) = 2
    /\ filtered = dependencies

-----------------------------------------------------------------------------
(* Vocabulary of the tree output *)

TreeLines == 1..Len(tree_out)

\* the line under which line n hangs: the last earlier line one level up
Parent(n) ==
    CHOOSE m \in 1..(n - 1) :
        /\ tree_out[m].level = tree_out[n].level - 1
        /\ \A k \in (m + 1)..(n - 1) : tree_out[k].level >= tree_out[n].level

\* the lines on the way from the root line down to line n, n itself left out
RECURSIVE Ancestors(_)
Ancestors(n) ==
    IF tree_out[n].level = 0 THEN {}
    ELSE {Parent(n)} \cup Ancestors(Parent(n))

\* the coordinates on the root-to-node path of line n
PathOf(n) == {tree_out[m].package : m \in Ancestors(n)}

\* the lines that hang directly under line n, in output order
ChildLines(n) == {m \in TreeLines : tree_out[m].level > 0 /\ Parent(m) = n}

ChildPackages(n) ==
    [j \in 1..Cardinality(ChildLines(n)) |->
        tree_out[Nth(ChildLines(n), j)].package]

\* nothing hangs under line n
Terminal(n) ==
    n = Len(tree_out) \/ tree_out[n + 1].level <= tree_out[n].level

\* the coordinates the stored list of a key points at, in list order
StoredKeys(k) ==
    IF k \in Keys(dependency_graph)
    THEN [j \in 1..Len(Get(dependency_graph, k)) |->
            DepKey(Get(dependency_graph, k)[j])]
    ELSE <<>>

Rendering == pc = "tree_node"

\* print_ascii_tree has returned and the Graph it printed is still there
Rendered ==
    /\ tree_out # <<>>
    /\ pc = "visualize" \/ (pc = "demo" /\ demo.started = 0)

HasSelfLoop == \E k \in Keys(dependency_graph) : k \in Elems(StoredKeys(k))

-----------------------------------------------------------------------------
(* C11: print_ascii_tree, once entered, returns: the recursion of
   _print_tree_node comes to its end on every Graph, with cycles and
   self-loops, for every max_depth >= 1. *)

C11_RenderTerminates == (pc = "tree") ~> (pc \in {"visualize", "demo"})

\* the render of a Graph with a self-loop has returned
C11_Witness ==
    /\ Rendered
    /\ HasSelfLoop
    /\ \E n \in TreeLines : tree_out[n].kind = "cyclic"

-----------------------------------------------------------------------------
(* C12: a line whose coordinate is already on its root-to-node path is a
   terminal line: below the depth boundary (level < max_depth) it is the
   cyclic-dependency marker, at the boundary (level = max_depth) it is the
   depth-limited leaf; in neither case does anything hang under it.
   Scenario B rendered from x:x prints x:x, y:y, x:x marked cyclic. *)

TreeScenarioB ==
    /\ \E v \in BOOLEAN : args = RunArgs(xx, 4, None, RepoUrl, TRUE, v)
    /\ source = SourceB

ScenarioBTree ==
    (TreeScenarioB /\ Rendered) =>
        tree_out = << Line(0, "", xx, "node"),
                      Line(1, LastGlyph, yy, "node"),
                      Line(2, LastGlyph, xx, "cyclic") >>

\* the statement as first made: the marker at whatever level
C12_RepeatIsCyclicAnywhere ==
    /\ \A n \in TreeLines :
          tree_out[n].package \in PathOf(n) =>
              tree_out[n].kind = "cyclic" /\ Terminal(n)
    /\ ScenarioBTree

C12_RepeatIsTerminal ==
    /\ \A n \in TreeLines :
          tree_out[n].package \in PathOf(n) =>
              /\ Terminal(n)
              /\ tree_out[n].kind = IF tree_out[n].level < config.max_depth
                                    THEN "cyclic" ELSE "limited"
    /\ ScenarioBTree

\* a render with a repetition below the boundary and one at the boundary
C12_Witness ==
    /\ Rendered
    /\ \E n \in TreeLines :
          tree_out[n].package \in PathOf(n) /\ tree_out[n].kind = "cyclic"
    /\ \E n \in TreeLines :
          tree_out[n].package \in PathOf(n) /\ tree_out[n].kind = "limited"

-----------------------------------------------------------------------------
(* C13: the cycle check is local to the path: a line is marked cyclic only
   when its coordinate is on its own root-to-node path; a coordinate that is
   not on the path of the line (a diamond reaches it again) is, below the
   depth boundary, printed as a plain node with all its stored children under
   it, each time. In Scenario A with max_depth 3, d:d is printed twice, under
   b:b and under c:c, both times as a plain node. *)

TreeScenarioA ==
    /\ \E v \in BOOLEAN : args = RunArgs(aa, 3, None, RepoUrl, TRUE, v)
    /\ source = SourceA

LinesOf(package) == {n \in TreeLines : tree_out[n].package = package}

-----------------------------------------------------------------------------
(* C14: no line is printed at a level above max_depth; a line at level
   max_depth is a depth-limited leaf with nothing under it, whatever the
   Graph stores for its coordinate; every stored child of a node printed at
   level max_depth - 1 is printed that way. *)

C14_DepthBoundary ==
    /\ \A n \in TreeLines :
          /\ tree_out[n].level <= config.max_depth
          /\ tree_out[n].level = config.max_depth =>
                tree_out[n].kind = "limited" /\ Terminal(n)
          /\ tree_out[n].kind = "limited" =>
                tree_out[n].level = config.max_depth
    /\ Rendered =>
          \A n \in TreeLines :
              (tree_out[n].kind = "node"
               /\ tree_out[n].level = config.max_depth - 1) =>
                  /\ ChildPackages(n) = StoredKeys(tree_out[n].package)
                  /\ \A m \in ChildLines(n) : tree_out[m].kind = "limited"

\* a depth-limited leaf for a coordinate whose stored list is not empty
C14_Witness ==
    /\ Rendered
    /\ \E n \in TreeLines :
          /\ tree_out[n].kind = "limited"
          /\ tree_out[n].package \notin PathOf(n)
          /\ StoredKeys(tree_out[n].package) # <<>>

-----------------------------------------------------------------------------
(* C15: under every printed node its children come in the stored list order,
   the last of them drawn with the last-sibling glyph and every one before it
   with the other glyph, expanded children and boundary leaves alike. *)

LastChild(n) == CHOOSE m \in ChildLines(n) : \A k \in ChildLines(n) : k <= m

C15_SiblingGlyphs ==
    Rendered =>
        \A n \in TreeLines :
            tree_out[n].kind = "node" =>
                /\ ChildPackages(n) = StoredKeys(tree_out[n].package)
                /\ \A m \in ChildLines(n) :
                      tree_out[m].connector =
                          IF m = LastChild(n) THEN LastGlyph ELSE MidGlyph

-----------------------------------------------------------------------------
(* Vocabulary of the diagram text *)

\* the text cut at its line ends (every line of the diagram has one)
TextLines(text) ==
    LET ends == {i \in 1..Len(text) : text[i] = "\n"}
        sorted == [j \in 1..Cardinality(ends) |-> Nth(ends, j)]
    IN [j \in 1..Len(sorted) |->
          SubSeq(text, IF j = 1 THEN 1 ELSE sorted[j - 1] + 1, sorted[j] - 1)]

\* the lines of the diagram after its fixed head
BodyLines ==
    SubSeq(TextLines(d2_content),
           Len(TextLines(D2Header)) + 1,
           Len(TextLines(d2_content)))

Arrow == <<" ", "-", ">", " ">>

Quoted(package) == <<"\"">> \o package \o <<"\"">>

IsEdgeLine(line) == Contains(Arrow, line)

IsNodeLine(line) ==
    /\ ~IsEdgeLine(line)
    /\ Len(line) >= 2
    /\ line[1] = "\"" /\ line[Len(line)] = "\""

EdgeText(parent, target) == Quoted(parent) \o Arrow \o Quoted(target)

NodeLineIndices(lines) == {i \in 1..Len(lines) : IsNodeLine(lines[i])}

EdgeLineIndices(lines) == {i \in 1..Len(lines) : IsEdgeLine(lines[i])}

\* the diagram has been written and the Graph it shows is still there
Diagrammed == d2_content # <<>> /\ pc = "demo" /\ demo.started = 0

RECURSIVE SumOfLens(_)
SumOfLens(g) == IF g = <<>> THEN 0 ELSE Len(Head(g).deps) + SumOfLens(Tail(g))

-----------------------------------------------------------------------------
(* C16: the diagram has one node-declaration line for each key of the Graph
   and one edge line for each stored record, repeated records and shared
   targets included: the edge lines from k to t are as many as the records
   of k's list that point at t. *)

C16_LineCounts ==
    Diagrammed =>
        LET lines == BodyLines
            nodes == NodeLineIndices(lines)
            edges == EdgeLineIndices(lines)
        IN /\ SubSeq(d2_content, 1, Len(D2Header)) = D2Header
           /\ Cardinality(nodes) = Len(dependency_graph)
           /\ Cardinality(edges) = SumOfLens(dependency_graph)
           /\ Cardinality(nodes) + Cardinality(edges) = Len(lines)
           /\ \A k \in Keys(dependency_graph) :
                 \A t \in Elems(StoredKeys(k)) :
                     Cardinality({i \in edges : lines[i] = EdgeText(k, t)})
                       = Cardinality({j \in 1..Len(StoredKeys(k)) :
                                         StoredKeys(k)[j] = t})

\* a diagram of a Graph with a repeated record in one list and with one
\* target under two parents
C16_Witness ==
    /\ Diagrammed
    /\ \E k \in Keys(dependency_graph) : ~NoDup(StoredKeys(k))
    /\ \E k, l \in Keys(dependency_graph) :
          k # l /\ Elems(StoredKeys(k)) \cap Elems(StoredKeys(l)) # {}

-----------------------------------------------------------------------------
(* C17: in the diagram all node declarations come before all edge
   statements; the declarations follow the order in which the build expanded
   the coordinates; the edge statements follow that same order of parents
   and, for one parent, the order of its stored list. *)

\* the edge statements of the parents of an expansion log, in its order
RECURSIVE EdgeTextsFrom(_)
EdgeTextsFrom(log) ==
    IF log = <<>> THEN <<>>
    ELSE [j \in 1..Len(StoredKeys(Head(log).package)) |->
            EdgeText(Head(log).package, StoredKeys(Head(log).package)[j])]
         \o EdgeTextsFrom(Tail(log))

C17_TwoPassOrder ==
    Diagrammed =>
        LET lines == BodyLines
            nodes == NodeLineIndices(lines)
            edges == EdgeLineIndices(lines)
        IN /\ \A i \in nodes : \A j \in edges : i < j
           /\ nodes = 1..Len(writeLog)
           /\ \A i \in nodes : lines[i] = Quoted(writeLog[i].package)
           /\ SubSeq(lines, Len(writeLog) + 1, Len(lines))
                 = EdgeTextsFrom(writeLog)

\* a diagram of three or more keys, two of them with edges, one with two
C17_Witness ==
    /\ Diagrammed
    /\ Len(writeLog) >= 3
    /\ \E k, l \in Keys(dependency_graph) :
          k # l /\ Len(StoredKeys(k)) >= 2 /\ Len(StoredKeys(l)) >= 1

-----------------------------------------------------------------------------
(* C18: with max_depth <= 0 the run goes from validation straight to its
   exit: build_dependency_graph is never entered, the source is never asked
   and the Graph never gets an entry. *)

C18_NeverBuilds ==
    args.max_depth <= 0 =>
        /\ pc \in {"run", "exit"}
        /\ queue = <<>>
        /\ fetchLog = <<>>
        /\ writeLog = <<>>
        /\ dependency_graph = EmptyDict

C18_ExitsAfterValidation ==
    (pc = "run" /\ args.max_depth <= 0) => pc' = "exit"

C18_NonPositiveDepthRejected ==
    []C18_NeverBuilds /\ [][C18_ExitsAfterValidation]_vars

\* a run turned down for its depth alone
C18_Witness ==
    /\ pc = "exit"
    /\ args.max_depth <= 0
    /\ NumParts(args.package) = 2
    /\ args.url = RepoUrl

-----------------------------------------------------------------------------
(* C19: every build begins with an empty Graph and an empty visited set, so
   each build of a run, the examples' builds included, ends with the Graph a
   first build for that root gives under the same source, max_depth and
   filter, and with nothing but its own keys and visited marks; while a build
   is going on the Graph only gains entries for new keys. *)

\* the Graph the loop of a first build leaves, from queue q, Graph g and
\* visited set vis
RECURSIVE FreshLoop(_, _, _)
FreshLoop(q, g, vis) ==
    IF q = <<>> THEN g
    ELSE IF Head(q).package \in vis THEN FreshLoop(Tail(q), g, vis)
    ELSE LET current_package == Head(q).package
             depth == Head(q).depth
             seen == vis \cup {current_package}
             deps == apply_filter(
                         get_package_dependencies(current_package, depth),
                         config.filter_substring)
         IN FreshLoop(IF depth + 1 < config.max_depth
                      THEN Tail(q) \o ChildEntries(deps, depth, seen)
                      ELSE Tail(q),
                      SetItem(g, current_package, deps),
                      seen)

FreshBuild(root) == FreshLoop(<<Entry(root, 0)>>, EmptyDict, {})

C19_StartsEmpty ==
    (pc = "build" /\ pc' = "loop") =>
        dependency_graph' = EmptyDict /\ visited_packages' = {}

C19_OnlyGrows ==
    (pc = "loop") =>
        \/ dependency_graph' = dependency_graph
        \/ /\ Len(dependency_graph') = Len(dependency_graph) + 1
           /\ SubSeq(dependency_graph', 1, Len(dependency_graph))
                 = dependency_graph
           /\ dependency_graph'[Len(dependency_graph')].key
                 \notin Keys(dependency_graph)

C19_AsFresh ==
    Built =>
        /\ dependency_graph = FreshBuild(config.package_name)
        /\ Keys(dependency_graph) = visited_packages
        /\ Keys(dependency_graph) = Elems(Packages(writeLog))

C19_FreshEachBuild ==
    /\ []C19_AsFresh
    /\ [][C19_StartsEmpty /\ C19_OnlyGrows]_vars

\* a later build of the run has ended, after builds that had left keys the
\* later root reaches too
C19_Witness ==
    /\ Built
    /\ demo.started >= 2
    /\ Len(dependency_graph) >= 3
    /\ flat_out # NothingFound

-----------------------------------------------------------------------------
(* C20: the steps of print_direct_dependencies, print_ascii_tree with
   _print_tree_node, and visualize_graph with generate_d2_diagram leave the
   Graph as it is; an output is written only after the run's build has
   returned and before the first build of the examples; so at the end of the
   outputs the listing and the diagram are what rendering the Graph again
   would give. *)

\* the run is between the return of its build and demonstrate_examples
Reading ==
    /\ pc \in {"built", "tree", "tree_node", "visualize"}
    /\ demo.started = 0

C20_ReadersLeaveGraph ==
    Reading => dependency_graph' = dependency_graph

C20_OutputsWhileReading ==
    <<flat_out, tree_out, d2_content>>' # <<flat_out, tree_out, d2_content>>
        => /\ Reading
           /\ queue = <<>>
           /\ dependency_graph = FreshBuild(config.package_name)

C20_SameOutputAgain ==
    (pc = "demo" /\ demo.started = 0) =>
        /\ flat_out = print_direct_dependencies(dependency_graph,
                                                config.package_name)
        /\ config.visualize =>
              d2_content = generate_d2_diagram(dependency_graph)

C20_GraphReadOnly ==
    /\ []C20_SameOutputAgain
    /\ [][C20_ReadersLeaveGraph /\ C20_OutputsWhileReading]_vars

\* all three outputs have been made of a Graph with edges
C20_Witness ==
    /\ pc = "demo" /\ demo.started = 0
    /\ flat_out # NothingFound
    /\ Len(tree_out) >= 3
    /\ d2_content # <<>>
    /\ Len(dependency_graph) >= 2

-----------------------------------------------------------------------------
(* Vocabulary of the source's edges *)

\* the coordinates the source's answer for k points at, once filtered; a
\* malformed coordinate and one the source fails for point at nothing
SourceEdges(k) ==
    IF NumParts(k) = 2 /\ Answers(k)
    THEN {DepKey(dep) :
            dep \in Elems(Subsequence(Answer(k), config.filter_substring))}
    ELSE {}

\* the coordinates at most n such edges away from r
RECURSIVE Reach(_, _)
Reach(r, n) ==
    IF n = 0 THEN {r}
    ELSE LET prev == Reach(r, n - 1)
         IN prev \cup UNION {SourceEdges(k) : k \in prev}

\* the length of a shortest path from r to k, for k within n edges
Distance(r, k, n) == CHOOSE m \in 0..n : k \in Reach(r, m) /\
                                         \A j \in 0..(m - 1) : k \notin Reach(r, j)

-----------------------------------------------------------------------------
(* C21: when build has finished, the keys of the Graph are the coordinates at
   most max_depth - 1 filtered source edges away from the root, no fewer and
   no more, and each key was expanded at a queue depth equal to its shortest
   distance from the root. *)

C21_KeysAreTheBall ==
    Built =>
        LET r == config.package_name
            d == config.max_depth
        IN /\ Keys(dependency_graph) = Reach(r, d - 1)
           /\ \A k \in Keys(dependency_graph) :
                 ExpandedDepth(k) = Distance(r, k, d - 1)

\* a key that a deeper key points at as well, and a coordinate just beyond
\* the bound
C21_Witness ==
    /\ Built
    /\ \E k, p \in Keys(dependency_graph) :
          /\ k # p
          /\ ExpandedDepth(k) >= 1
          /\ ExpandedDepth(p) >= ExpandedDepth(k)
          /\ k \in Children(dependency_graph, p)
    /\ Reach(config.package_name, config.max_depth)
          # Reach(config.package_name, config.max_depth - 1)

-----------------------------------------------------------------------------
(* C22: in the tree of a Graph built for the same root and max_depth, every
   coordinate the renderer made a call for (a plain node line or a cyclic
   marker, at a level below max_depth) is a key of the Graph; a line whose
   coordinate is no key is a depth-limited leaf. *)

C22_ExpandedAreKeys ==
    (Rendering \/ Rendered) =>
        \A n \in TreeLines :
            /\ tree_out[n].kind \in {"node", "cyclic"} =>
                  /\ tree_out[n].level < config.max_depth
                  /\ tree_out[n].package \in Keys(dependency_graph)
            /\ tree_out[n].package \notin Keys(dependency_graph) =>
                  tree_out[n].kind = "limited"

\* a finished tree with expanded children and a leaf that is no key
C22_Witness ==
    /\ Rendered
    /\ \E n \in TreeLines :
          /\ tree_out[n].kind = "node"
          /\ tree_out[n].level >= 1
          /\ ChildLines(n) # {}
    /\ \E n \in TreeLines :
          /\ tree_out[n].kind = "limited"
          /\ tree_out[n].package \notin Keys(dependency_graph)

-----------------------------------------------------------------------------
(* C23: the filter cuts the traversal: an iteration enqueues only targets of
   the list it stores, so a record the filter removed brings nothing into
   the queue; every key other than the root is the target of a stored record
   of some key, and with a non-empty filter that record's
   group:artifact:version contains the substring. *)

\* key p holds a record pointing at k that the filter keeps
StoredEdgeInto(k, p) ==
    \E i \in 1..Len(Get(dependency_graph, p)) :
        /\ DepKey(Get(dependency_graph, p)[i]) = k
        /\ Falsy(config.filter_substring)
              \/ Selected(Get(dependency_graph, p)[i], config.filter_substring)

C23_KeysHaveStoredParent ==
    pc \in {"loop", "built"} =>
        \A k \in Keys(dependency_graph) \ {config.package_name} :
            \E p \in Keys(dependency_graph) : StoredEdgeInto(k, p)

C23_EnqueuesStoredOnly ==
    (pc = "loop" /\ queue # <<>>) =>
        \A e \in Elems(queue') :
            \/ e \in Elems(Tail(queue))
            \/ /\ Head(queue).package \in Keys(dependency_graph')
               /\ e.package \in Children(dependency_graph', Head(queue).package)

C23_FilterPrunes ==
    /\ []C23_KeysHaveStoredParent
    /\ [][C23_EnqueuesStoredOnly]_vars

\* a record the filter removed, below the depth boundary, whose target never
\* became a key, in a Graph of several keys
C23_Witness ==
    /\ Built
    /\ ~Falsy(config.filter_substring)
    /\ Len(dependency_graph) >= 2
    /\ \E k \in Keys(dependency_graph) :
          /\ NumParts(k) = 2 /\ Answers(k)
          /\ ExpandedDepth(k) + 1 < config.max_depth
          /\ \E dep \in Elems(Answer(k)) :
                /\ ~Selected(dep, config.filter_substring)
                /\ DepKey(dep) \notin Keys(dependency_graph)

-----------------------------------------------------------------------------
(* C24: between the iterations of the build loop the Graph's keys are the
   visited set; an iteration never takes a key or a visited mark away; once
   the first iteration is over the root is in both, so a finished Graph is
   never empty, whatever the source answers and whatever the root looks
   like. *)

C24_KeysAreVisited ==
    pc \in {"loop", "built"} =>
        /\ Keys(dependency_graph) = visited_packages
        /\ popLog # <<>> => config.package_name \in Keys(dependency_graph)
        /\ pc = "built" => dependency_graph # EmptyDict

C24_BothGrow ==
    pc = "loop" =>
        /\ Keys(dependency_graph) \subseteq Keys(dependency_graph')
        /\ visited_packages \subseteq visited_packages'

C24_LoopInvariant ==
    /\ []C24_KeysAreVisited
    /\ [][C24_BothGrow]_vars

\* a finished build whose root is malformed, and one whose root the source
\* fails for, end alike: the root alone, with an empty list
C24_Witness ==
    /\ Built
    /\ NumParts(config.package_name) # 2 \/ ~Answers(config.package_name)
    /\ dependency_graph = <<[key |-> config.package_name, deps |-> <<>>]>>
    /\ visited_packages = {config.package_name}

-----------------------------------------------------------------------------
(* C25: during a build (max_depth >= 1) every entry in the queue, and every
   entry that was popped, has a depth from 0 to max_depth - 1, and the depths
   in the queue do not decrease from front to back; so
   get_package_dependencies is never called with current_depth >= max_depth
   and its first early return is not taken. *)

InDepthRange(entry) ==
    0 <= entry.depth /\ entry.depth <= config.max_depth - 1

C25_QueueDepths ==
    pc \in {"loop", "built"} =>
        /\ config.max_depth >= 1
        /\ \A i \in 1..Len(queue) : InDepthRange(queue[i])
        /\ \A i \in 1..Len(popLog) : InDepthRange(popLog[i])
        /\ \A i, j \in 1..Len(queue) :
              i < j => queue[i].depth <= queue[j].depth

C25_EarlyReturnNotTaken ==
    (pc = "loop" /\ queue # <<>>) => ~DepthExhausted(Head(queue).depth)

C25_DepthsInRange ==
    /\ []C25_QueueDepths
    /\ [][C25_EarlyReturnNotTaken]_vars

\* a queue holding entries of two depths, the back one at max_depth - 1
C25_Witness ==
    /\ pc = "loop"
    /\ Len(queue) >= 2
    /\ queue[1].depth < queue[Len(queue)].depth
    /\ queue[Len(queue)].depth = config.max_depth - 1
    /\ config.max_depth >= 3

====
